---------------------------- MODULE Spec2Model ----------------------------
(***************************************************************************)
(* Model of addons/crm/wizard/validate_email.py: the RFC 2822 addr-spec    *)
(* matcher (VALID_ADDRESS_REGEXP) and validate_email(), which optionally   *)
(* looks up the MX hosts of the address's domain and probes them over SMTP.*)
(*                                                                         *)
(* A string is a sequence of one-character strings.  A regular expression  *)
(* fragment R of the source is an operator R(s, P): the set of positions   *)
(* (0 .. Len(s)) at which a match of R can end when it starts at one of    *)
(* the positions in P.  re.match finds a match exactly when some           *)
(* alternative of the backtracking search succeeds, so the set of end      *)
(* positions decides it.                                                   *)
(***************************************************************************)
EXTENDS Integers, Sequences, FiniteSets, TLC

(***************************************************************************)
(* Bounds of the model.                                                    *)
(***************************************************************************)
MaxLen == 3          \* longest address string drawn by Init
MaxHosts == 2        \* longest MX list DNS.mxlookup answers with
AddressLen == 4      \* longest address string InitAddress enumerates

(***************************************************************************)
(* Characters.  Each class below is the source's class restricted to the   *)
(* characters the model draws from: lower-case letters, digits, "+", ".",  *)
(* "@", the double quote, the backslash, brackets, parentheses, space,     *)
(* tab, CR, LF and form feed (\x0c, one of the NO_WS_CTL control           *)
(* characters).                                                            *)
(***************************************************************************)
\* \w of line 56: letters and digits
WordChars ==
    {"a", "b", "c", "d", "e", "f", "g", "h", "i", "j", "k", "l", "m",
     "n", "o", "p", "q", "r", "s", "t", "u", "v", "w", "x", "y", "z",
     "0", "1", "2", "3", "4", "5", "6", "7", "8", "9"}
AllChars ==
    WordChars \cup
    {"+", ".", "@", "\"", "\\", "[", "]", "(", ")", " ", "\t", "\r", "\n", "\f"}

WSPChars == {" ", "\t"}
NO_WS_CTL == {"\f"}
\* [\w!#$%&'*+\-/=?^`{|}~]
ATEXT == WordChars \cup {"+"}
\* NO_WS_CTL, \x21-\x27, \x2a-\x5b, \x5d-\x7e: no "(", ")", "\", no white space
CTEXT == NO_WS_CTL \cup WordChars \cup {"+", ".", "@", "\"", "[", "]"}
\* NO_WS_CTL, \x21, \x23-\x5b, \x5d-\x7e: no double quote, no "\", no white space
QTEXT == NO_WS_CTL \cup WordChars \cup {"+", ".", "@", "[", "]", "(", ")"}
\* NO_WS_CTL, \x21-\x5a, \x5e-\x7e: no "[", "\", "]", no white space
DTEXT == NO_WS_CTL \cup WordChars \cup {"+", ".", "@", "\"", "(", ")"}
\* "." of a pattern compiled without re.DOTALL: any character but the newline
DotChars == AllChars \ {"\n"}

(***************************************************************************)
(* Regular-expression combinators.                                         *)
(***************************************************************************)
\* one character of the class C
Class(s, P, C) == {p + 1 : p \in {q \in P : q < Len(s) /\ s[q + 1] \in C}}
\* the literal character c
Lit(s, P, c) == Class(s, P, {c})
\* F*: zero or more matches of F, where once[p] is the set of positions a
\* match of F starting at p can end at; every match consumes a character
Star(once, s, P) ==
    LET closure[reached \in SUBSET (0..Len(s))] ==
            LET more == reached \cup UNION {once[p] : p \in reached}
            IN  IF more = reached THEN reached ELSE closure[more]
    IN  closure[P]
\* the positions of s
Positions(s) == 0..Len(s)

\* WSP = [ \t]
WSP(s, P) == Class(s, P, WSPChars)
\* CRLF = (?:\r\n)
CRLF(s, P) == Lit(s, Lit(s, P, "\r"), "\n")
\* QUOTED_PAIR = (?:\\.)
QUOTED_PAIR(s, P) == Class(s, Lit(s, P, "\\"), DotChars)
\* FWS = (?:(?:WSP*CRLF)?WSP+)
FWS(s, P) ==
    LET wsp == [p \in Positions(s) |-> WSP(s, {p})]
        folded == P \cup CRLF(s, Star(wsp, s, P))
    IN  Star(wsp, s, WSP(s, folded))
\* FWS?
OptFWS(s, P) == P \cup FWS(s, P)
\* CCONTENT = (?:CTEXT|QUOTED_PAIR)
CCONTENT(s, P) == Class(s, P, CTEXT) \cup QUOTED_PAIR(s, P)
\* the repeated group of COMMENT: FWS?CCONTENT
CommentItem(s, P) == CCONTENT(s, OptFWS(s, P))
\* COMMENT = \((?:FWS?CCONTENT)*FWS?\)
COMMENT(s, P) ==
    LET item == [p \in Positions(s) |-> CommentItem(s, {p})]
    IN  Lit(s, OptFWS(s, Star(item, s, Lit(s, P, "("))), ")")
\* the repeated group of CFWS: FWS?COMMENT
CfwsItem(s, P) == COMMENT(s, OptFWS(s, P))
\* CFWS = (?:FWS?COMMENT)*(?:FWS?COMMENT|FWS)
CFWS(s, P) ==
    LET item == [p \in Positions(s) |-> CfwsItem(s, {p})]
        Q == Star(item, s, P)
    IN  CfwsItem(s, Q) \cup FWS(s, Q)
\* CFWS?
OptCFWS(s, P) == P \cup CFWS(s, P)
\* ATEXT+
AtextPlus(s, P) ==
    LET atext == [p \in Positions(s) |-> Class(s, {p}, ATEXT)]
    IN  Star(atext, s, Class(s, P, ATEXT))
\* the repeated group of DOT_ATOM_TEXT: \.ATEXT+
DotAtomItem(s, P) == AtextPlus(s, Lit(s, P, "."))
\* DOT_ATOM_TEXT = ATEXT+(?:\.ATEXT+)*
DOT_ATOM_TEXT(s, P) ==
    LET item == [p \in Positions(s) |-> DotAtomItem(s, {p})]
    IN  Star(item, s, AtextPlus(s, P))
\* DOT_ATOM = CFWS?DOT_ATOM_TEXT CFWS?
DOT_ATOM(s, P) == OptCFWS(s, DOT_ATOM_TEXT(s, OptCFWS(s, P)))
\* QCONTENT = (?:QTEXT|QUOTED_PAIR)
QCONTENT(s, P) == Class(s, P, QTEXT) \cup QUOTED_PAIR(s, P)
\* the repeated group of QUOTED_STRING: FWS?QCONTENT
QuotedItem(s, P) == QCONTENT(s, OptFWS(s, P))
\* QUOTED_STRING = CFWS?"(?:FWS?QCONTENT)*FWS?"CFWS?
QUOTED_STRING(s, P) ==
    LET item == [p \in Positions(s) |-> QuotedItem(s, {p})]
    IN  OptCFWS(s, Lit(s, OptFWS(s, Star(item, s, Lit(s, OptCFWS(s, P), "\""))), "\""))
\* LOCAL_PART = (?:DOT_ATOM|QUOTED_STRING)
LOCAL_PART(s, P) == DOT_ATOM(s, P) \cup QUOTED_STRING(s, P)
\* DCONTENT = (?:DTEXT|QUOTED_PAIR)
DCONTENT(s, P) == Class(s, P, DTEXT) \cup QUOTED_PAIR(s, P)
\* the repeated group of DOMAIN_LITERAL: FWS?DCONTENT
LiteralItem(s, P) == DCONTENT(s, OptFWS(s, P))
\* DOMAIN_LITERAL = CFWS?\[(?:FWS?DCONTENT)*FWS?\]CFWS?
DOMAIN_LITERAL(s, P) ==
    LET item == [p \in Positions(s) |-> LiteralItem(s, {p})]
    IN  OptCFWS(s, Lit(s, OptFWS(s, Star(item, s, Lit(s, OptCFWS(s, P), "["))), "]"))
\* DOMAIN = (?:DOT_ATOM|DOMAIN_LITERAL)  (DOMAIN is a reserved word of TLA+)
DOMAIN_RE(s, P) == DOT_ATOM(s, P) \cup DOMAIN_LITERAL(s, P)
\* ADDR_SPEC = LOCAL_PART@DOMAIN
ADDR_SPEC(s, P) == DOMAIN_RE(s, Lit(s, LOCAL_PART(s, P), "@"))
\* "$" without re.MULTILINE: the end of the string, or just before a newline
\* that is the string's last character
AtEnd(s, p) == p = Len(s) \/ (p = Len(s) - 1 /\ s[Len(s)] = "\n")
\* re.match(VALID_ADDRESS_REGEXP, email) is not None, VALID_ADDRESS_REGEXP = ^ADDR_SPEC$
VALID_ADDRESS_REGEXP(s) == \E p \in ADDR_SPEC(s, {0}) : AtEnd(s, p)

(***************************************************************************)
(* The environment of one call.                                            *)
(***************************************************************************)
\* the characters Init builds the address argument from
EmailChars == {"a", ".", "@", "\"", "\n"}
Emails == UNION {[1..n -> EmailChars] : n \in 0..MaxLen}

\* MX hosts are named 1 .. MaxHosts; an MX record is <<preference, host>>
Hosts == 1..MaxHosts
Priorities == {10, 20}
MXRecords == Priorities \X Hosts
\* the order of Python tuples
TupleLess(a, b) == a[1] < b[1] \/ (a[1] = b[1] /\ a[2] < b[2])
\* what DNS.mxlookup can answer: the records of the domain in sorted order
\* (pyDNS sorts the answer), no host twice, possibly none at all
MxAnswers ==
    {l \in UNION {[1..n -> MXRecords] : n \in 0..MaxHosts} :
        \A j \in 1..Len(l), k \in 1..Len(l) :
            j < k => TupleLess(l[j], l[k]) /\ l[j][2] # l[k][2]}

\* the reply code the source compares with (lines 119 and 122)
OK250 == 250
\* reply codes a server can answer a command with
ReplyCodes == {250, 251, 550}
\* reply codes a server can greet a new connection with
GreetingCodes == {220, 554}

\* An outcome of a library call: the exception it raises ("none": it
\* returns) and the reply code it returns (0: none).
Returned(codes) == {[exc |-> "none", code |-> c] : c \in codes}
Raised(excs) == {[exc |-> e, code |-> 0] : e \in excs}
\* DNS.DiscoverNameServers and DNS.mxlookup: return, raise DNS.ServerError,
\* or raise an error of another class (a timeout, an I/O error)
DnsOutcomes == Returned({0}) \cup Raised({"ServerError", "OtherError"})
\* smtplib.SMTP.connect: returns the greeting's code whatever it is; a
\* refused or timed-out connection raises OSError; an end of file instead of
\* the greeting raises SMTPServerDisconnected.  SMTPConnectError is the
\* class the source's handler names.
ConnectOutcomes ==
    Returned(GreetingCodes)
        \cup Raised({"OSError", "SMTPServerDisconnected", "SMTPConnectError"})
\* smtplib.SMTP.helo, mail, rcpt: return the reply's code, or raise
\* SMTPServerDisconnected when the connection is lost while sending the
\* command or reading the reply
CommandOutcomes == Returned(ReplyCodes) \cup Raised({"SMTPServerDisconnected"})

(***************************************************************************)
(* The state of one call validate_email(email, check_mx, verify).          *)
(***************************************************************************)
VARIABLES
    email,      \* the argument email
    matches,    \* TRUE iff email matches VALID_ADDRESS_REGEXP
    verify,     \* the argument verify
    DNS,        \* TRUE iff "import DNS" succeeded (lines 24-29)
    refcounting,\* TRUE iff the interpreter frees an object with its last reference
    pc,         \* "start", "discover", "mxlookup", "connect", "helo", "mail", "rcpt", "done"
    check_mx,   \* the argument check_mx, updated by line 107
    hostname,   \* the local hostname (line 111)
    mx_hosts,   \* the local mx_hosts (line 112)
    i,          \* position of the loop variable mx in mx_hosts (line 113)
    smtp,       \* the host the local smtp is connected to, 0: none
    open,       \* hosts with a connection of this call that is still open
    log,        \* the DNS and SMTP operations of this call so far, in order
    result,     \* "none", or the value returned: "True", "False"
    raised,     \* "none", or the class of the exception the call ended with
    twin        \* the same call with the opposite check_mx argument

vars ==
    <<email, matches, verify, DNS, refcounting, pc, check_mx, hostname, mx_hosts, i, smtp, open, log,
      result, raised, twin>>

\* the locals of the call as one record
Frame ==
    [pc |-> pc, check_mx |-> check_mx, hostname |-> hostname, mx_hosts |-> mx_hosts,
     i |-> i, smtp |-> smtp, open |-> open, log |-> log, result |-> result,
     raised |-> raised]

Become(f) ==
    /\ pc' = f.pc
    /\ check_mx' = f.check_mx
    /\ hostname' = f.hostname
    /\ mx_hosts' = f.mx_hosts
    /\ i' = f.i
    /\ smtp' = f.smtp
    /\ open' = f.open
    /\ log' = f.log
    /\ result' = f.result
    /\ raised' = f.raised

StartFrame(cm) ==
    [pc |-> "start", check_mx |-> cm, hostname |-> <<>>, mx_hosts |-> <<>>,
     i |-> 0, smtp |-> 0, open |-> {}, log |-> <<>>, result |-> "none",
     raised |-> "none"]

Entry(op, to, out) == [op |-> op, to |-> to, code |-> out.code, exc |-> out.exc]
Logged(f, op, to, out) == [f EXCEPT !.log = Append(@, Entry(op, to, out))]

\* The object smtp is bound to loses its last reference.  The source never
\* calls quit() or close(); the socket of an unreferenced object is closed at
\* once only by an interpreter that counts references (gc).
Drop(f, fin) == IF fin THEN [f EXCEPT !.open = @ \ {f.smtp}] ELSE f
\* return r (lines 117, 122, 129, 130)
Return(f, r, fin) == [Drop(f, fin) EXCEPT !.pc = "done", !.result = r]
\* an exception that no handler of validate_email catches
Propagate(f, e) == [f EXCEPT !.pc = "done", !.raised = e]
\* smtplib closes the socket itself before it raises SMTPServerDisconnected
Lost(f) == [f EXCEPT !.open = @ \ {f.smtp}]
\* continue (lines 119, 127): the next host, or the end of the loop and line 130
Continue(f, fin) ==
    IF f.i < Len(f.mx_hosts)
    THEN [f EXCEPT !.pc = "connect", !.i = @ + 1]
    ELSE Return(f, "True", fin)
\* break (lines 123, 125), then line 130
Break(f, fin) == Return(f, "True", fin)

\* str.find: the 0-based position of the first c, -1 if there is none
Find(s, c) ==
    IF \E k \in 1..Len(s) : s[k] = c
    THEN (CHOOSE k \in 1..Len(s) : s[k] = c /\ \A j \in 1..(k - 1) : s[j] # c) - 1
    ELSE -1
\* s[k:] for a 0-based k >= 0
SliceFrom(s, k) == SubSeq(s, k + 1, Len(s))

(***************************************************************************)
(* The steps of validate_email, one per library call it makes.  Each maps  *)
(* the locals before the step, the arguments and the outcome of the call   *)
(* to the locals after it.                                                 *)
(***************************************************************************)
\* Variants of MatchStep with one fault each.
\* the assertion of line 106 is missing
MatchStep_NoAssert(f, em, vf, dns) ==
    LET cm == f.check_mx \/ vf
        g == [f EXCEPT !.check_mx = cm]
    IN  IF ~cm THEN Return(g, "True", FALSE)
        ELSE IF ~dns THEN Propagate(g, "Exception")
        ELSE [g EXCEPT !.pc = "discover"]
\* the exception of line 109 is of a class that line 128 catches
MatchStep_NoDnsFalse(f, em, vf, dns) ==
    IF ~VALID_ADDRESS_REGEXP(em)
    THEN Return(f, "False", FALSE)
    ELSE LET cm == f.check_mx \/ vf
             g == [f EXCEPT !.check_mx = cm]
         IN  IF ~cm THEN Return(g, "True", FALSE)
             ELSE IF ~dns THEN Return(g, "False", FALSE)
             ELSE [g EXCEPT !.pc = "discover"]
\* the test of line 108 is missing: the MX check is always made
MatchStep_AlwaysMx(f, em, vf, dns) ==
    IF ~VALID_ADDRESS_REGEXP(em)
    THEN Return(f, "False", FALSE)
    ELSE LET g == [f EXCEPT !.check_mx = f.check_mx \/ vf]
         IN  IF ~dns THEN Propagate(g, "Exception")
             ELSE [g EXCEPT !.pc = "discover"]
\* line 107 is missing: verify does not switch check_mx on
MatchStep_NoImply(f, em, vf, dns) ==
    IF ~VALID_ADDRESS_REGEXP(em)
    THEN Return(f, "False", FALSE)
    ELSE IF ~f.check_mx THEN Return(f, "True", FALSE)
         ELSE IF ~dns THEN Propagate(f, "Exception")
         ELSE [f EXCEPT !.pc = "discover"]

\* lines 105-109, with the handler of lines 128-129 and line 130
MatchStep(f, em, vf, dns) ==
    IF ~VALID_ADDRESS_REGEXP(em)
    THEN Return(f, "False", FALSE)
    ELSE LET cm == f.check_mx \/ vf
             g == [f EXCEPT !.check_mx = cm]
         IN  IF ~cm THEN Return(g, "True", FALSE)
             ELSE IF ~dns THEN Propagate(g, "Exception")
             ELSE [g EXCEPT !.pc = "discover"]

\* line 110, with the handler of lines 128-129
DiscoverStep(f, out) ==
    LET g == Logged(f, "DiscoverNameServers", 0, out)
    IN  CASE out.exc = "none" -> [g EXCEPT !.pc = "mxlookup"]
          [] out.exc = "ServerError" -> Return(g, "False", FALSE)
          [] OTHER -> Propagate(g, out.exc)

\* Variant of LookupStep: the loop of line 113 starts at the last record
LookupStep_LastFirst(f, em, out, answer) ==
    LET name == SliceFrom(em, Find(em, "@") + 1)
        g == Logged([f EXCEPT !.hostname = name], "mxlookup", 0, out)
    IN  CASE out.exc = "none" ->
               IF answer = <<>>
               THEN Return([g EXCEPT !.mx_hosts = answer], "True", FALSE)
               ELSE [g EXCEPT !.mx_hosts = answer, !.i = Len(answer), !.pc = "connect"]
          [] out.exc = "ServerError" -> Return(g, "False", FALSE)
          [] OTHER -> Propagate(g, out.exc)

\* lines 111-113, with the handler of lines 128-129 and line 130
LookupStep(f, em, out, answer) ==
    LET name == SliceFrom(em, Find(em, "@") + 1)
        g == Logged([f EXCEPT !.hostname = name], "mxlookup", 0, out)
    IN  CASE out.exc = "none" ->
               IF answer = <<>>
               THEN Return([g EXCEPT !.mx_hosts = answer], "True", FALSE)
               ELSE [g EXCEPT !.mx_hosts = answer, !.i = 1, !.pc = "connect"]
          [] out.exc = "ServerError" -> Return(g, "False", FALSE)
          [] OTHER -> Propagate(g, out.exc)

\* Variant of ConnectStep: line 117 is missing, the handshake is always made
ConnectStep_AlwaysHelo(f, vf, out, gc) ==
    LET host == f.mx_hosts[f.i][2]
        g == Logged([Drop(f, gc) EXCEPT !.smtp = host], "connect", host, out)
    IN  CASE out.exc = "none" -> [g EXCEPT !.open = @ \cup {host}, !.pc = "helo"]
          [] out.exc = "SMTPServerDisconnected" -> Break(g, gc)
          [] out.exc = "SMTPConnectError" -> Continue(g, gc)
          [] OTHER -> Propagate(g, out.exc)

\* lines 115-117 for mx = mx_hosts[i], with the handlers of lines 124-127.
\* Line 115 rebinds smtp: the object of the previous iteration is dropped.
ConnectStep(f, vf, out, gc) ==
    LET host == f.mx_hosts[f.i][2]
        g == Logged([Drop(f, gc) EXCEPT !.smtp = host], "connect", host, out)
    IN  CASE out.exc = "none" ->
               LET h == [g EXCEPT !.open = @ \cup {host}]
               IN  IF ~vf THEN Return(h, "True", gc) ELSE [h EXCEPT !.pc = "helo"]
          [] out.exc = "SMTPServerDisconnected" -> Break(g, gc)
          [] out.exc = "SMTPConnectError" -> Continue(g, gc)
          [] OTHER -> Propagate(g, out.exc)

\* Variant of HeloStep: line 119 is missing, the status of HELO is not looked at
HeloStep_IgnoreStatus(f, out, gc) ==
    LET g == Logged(f, "helo", f.smtp, out)
    IN  CASE out.exc = "none" -> [g EXCEPT !.pc = "mail"]
          [] OTHER -> Break(Lost(g), gc)

\* Variant of HeloStep: the handler of lines 124-125 continues with the next host
HeloStep_DisconnectNext(f, out, gc) ==
    LET g == Logged(f, "helo", f.smtp, out)
    IN  CASE out.exc = "none" ->
               IF out.code # OK250 THEN Continue(g, gc) ELSE [g EXCEPT !.pc = "mail"]
          [] OTHER -> Continue(Lost(g), gc)

\* lines 118-119, with the handler of lines 124-125
HeloStep(f, out, gc) ==
    LET g == Logged(f, "helo", f.smtp, out)
    IN  CASE out.exc = "none" ->
               IF out.code # OK250 THEN Continue(g, gc) ELSE [g EXCEPT !.pc = "mail"]
          [] OTHER -> Break(Lost(g), gc)

\* line 120, with the handler of lines 124-125; the reply is not looked at
MailStep(f, out, gc) ==
    LET g == Logged(f, "mail", f.smtp, out)
    IN  CASE out.exc = "none" -> [g EXCEPT !.pc = "rcpt"]
          [] OTHER -> Break(Lost(g), gc)

\* Variants of RcptStep with one fault each.
\* line 122 continues with the next host instead of returning False
RcptStep_RejectNext(f, out, gc) ==
    LET g == Logged(f, "rcpt", f.smtp, out)
    IN  CASE out.exc = "none" ->
               IF out.code # OK250 THEN Continue(g, gc) ELSE Break(g, gc)
          [] OTHER -> Break(Lost(g), gc)
\* line 123 continues with the next host instead of leaving the loop
RcptStep_AcceptNext(f, out, gc) ==
    LET g == Logged(f, "rcpt", f.smtp, out)
    IN  CASE out.exc = "none" ->
               IF out.code # OK250 THEN Return(g, "False", gc) ELSE Continue(g, gc)
          [] OTHER -> Break(Lost(g), gc)

\* lines 121-123, with the handler of lines 124-125
RcptStep(f, out, gc) ==
    LET g == Logged(f, "rcpt", f.smtp, out)
    IN  CASE out.exc = "none" ->
               IF out.code # OK250 THEN Return(g, "False", gc) ELSE Break(g, gc)
          [] OTHER -> Break(Lost(g), gc)

(***************************************************************************)
(* The call and its twin take each step with the same outcome of the       *)
(* library call.                                                           *)
(***************************************************************************)
\* own, other: the locals of the call and of its twin after the step
Run(at, own, other) ==
    /\ Become(own)
    /\ twin' = IF twin.pc = at THEN other ELSE twin
    /\ UNCHANGED <<email, matches, verify, DNS, refcounting>>

Init ==
    /\ email \in Emails
    /\ matches = VALID_ADDRESS_REGEXP(email)
    /\ verify \in BOOLEAN
    /\ DNS \in BOOLEAN
    /\ refcounting \in BOOLEAN
    /\ check_mx \in BOOLEAN
    /\ pc = "start"
    /\ hostname = <<>>
    /\ mx_hosts = <<>>
    /\ i = 0
    /\ smtp = 0
    /\ open = {}
    /\ log = <<>>
    /\ result = "none"
    /\ raised = "none"
    /\ twin = StartFrame(~check_mx)

Match ==
    /\ pc = "start"
    /\ Run("start",
              MatchStep(Frame, email, verify, DNS),
              MatchStep(twin, email, verify, DNS))

Discover ==
    /\ pc = "discover"
    /\ \E out \in DnsOutcomes :
          Run("discover",
              DiscoverStep(Frame, out),
              DiscoverStep(twin, out))

Lookup ==
    /\ pc = "mxlookup"
    /\ \E out \in DnsOutcomes, answer \in MxAnswers :
          /\ out.exc # "none" => answer = <<>>
          /\ Run("mxlookup",
              LookupStep(Frame, email, out, answer),
              LookupStep(twin, email, out, answer))

Connect ==
    /\ pc = "connect"
    /\ \E out \in ConnectOutcomes :
          Run("connect",
              ConnectStep(Frame, verify, out, refcounting),
              ConnectStep(twin, verify, out, refcounting))

Helo ==
    /\ pc = "helo"
    /\ \E out \in CommandOutcomes :
          Run("helo",
              HeloStep(Frame, out, refcounting),
              HeloStep(twin, out, refcounting))

Mail ==
    /\ pc = "mail"
    /\ \E out \in CommandOutcomes :
          Run("mail",
              MailStep(Frame, out, refcounting),
              MailStep(twin, out, refcounting))

Rcpt ==
    /\ pc = "rcpt"
    /\ \E out \in CommandOutcomes :
          Run("rcpt",
              RcptStep(Frame, out, refcounting),
              RcptStep(twin, out, refcounting))

Next == Match \/ Discover \/ Lookup \/ Connect \/ Helo \/ Mail \/ Rcpt

Spec == Init /\ [][Next]_vars

(***************************************************************************)
(* The same call on a wider set of address arguments: a table of           *)
(* addresses and every string of up to AddressLen characters of            *)
(* EmailChars.                                                             *)
(***************************************************************************)
AddressTable == {
    \* user@example.com
    <<"u", "s", "e", "r", "@", "e", "x", "a", "m", "p", "l", "e", ".",
    "c", "o", "m">>,
    \* user.name+tag@sub.example.co
    <<"u", "s", "e", "r", ".", "n", "a", "m", "e", "+", "t", "a", "g",
    "@", "s", "u", "b", ".", "e", "x", "a", "m", "p", "l", "e", ".", "c",
    "o">>,
    \* "quoted user"@example.com
    <<"\"", "q", "u", "o", "t", "e", "d", " ", "u", "s", "e", "r", "\"",
    "@", "e", "x", "a", "m", "p", "l", "e", ".", "c", "o", "m">>,
    \* user@[192.168.1.1]
    <<"u", "s", "e", "r", "@", "[", "1", "9", "2", ".", "1", "6", "8",
    ".", "1", ".", "1", "]">>,
    \* plainaddress
    <<"p", "l", "a", "i", "n", "a", "d", "d", "r", "e", "s", "s">>,
    \* @missinglocal.com
    <<"@", "m", "i", "s", "s", "i", "n", "g", "l", "o", "c", "a", "l",
    ".", "c", "o", "m">>,
    \* user@
    <<"u", "s", "e", "r", "@">>,
    \* user@@example.com
    <<"u", "s", "e", "r", "@", "@", "e", "x", "a", "m", "p", "l", "e",
    ".", "c", "o", "m">>,
    \* xuser@example.comx
    <<"x", "u", "s", "e", "r", "@", "e", "x", "a", "m", "p", "l", "e",
    ".", "c", "o", "m", "x">>,
    \* user@example.com\n
    <<"u", "s", "e", "r", "@", "e", "x", "a", "m", "p", "l", "e", ".",
    "c", "o", "m", "\n">>,
    \* "a@b"@example.com
    <<"\"", "a", "@", "b", "\"", "@", "e", "x", "a", "m", "p", "l", "e",
    ".", "c", "o", "m">>,
    \*  user@example.com
    <<" ", "u", "s", "e", "r", "@", "e", "x", "a", "m", "p", "l", "e",
    ".", "c", "o", "m">>,
    \* user@example.com x
    <<"u", "s", "e", "r", "@", "e", "x", "a", "m", "p", "l", "e", ".",
    "c", "o", "m", " ", "x">>
    }
AddressInputs == AddressTable \cup UNION {[1..n -> EmailChars] : n \in 0..AddressLen}

InitAddress ==
    /\ email \in AddressInputs
    /\ matches = VALID_ADDRESS_REGEXP(email)
    /\ verify \in BOOLEAN
    /\ DNS = TRUE
    /\ refcounting = TRUE
    /\ check_mx \in BOOLEAN
    /\ pc = "start"
    /\ hostname = <<>>
    /\ mx_hosts = <<>>
    /\ i = 0
    /\ smtp = 0
    /\ open = {}
    /\ log = <<>>
    /\ result = "none"
    /\ raised = "none"
    /\ twin = StartFrame(~check_mx)

SpecAddress == InitAddress /\ [][Next]_vars

(***************************************************************************)
(* Vocabulary of the properties.                                           *)
(***************************************************************************)
Done == pc = "done"
Matches == matches
\* the position of host h in mx_hosts (no host is listed twice)
Pos(h) == CHOOSE p \in 1..Len(mx_hosts) : mx_hosts[p][2] = h
\* some operation (a connection attempt or a command) was issued to host h
Contacted(h) == \E k \in 1..Len(log) : log[k].to = h
\* no host listed after position p was contacted
LaterUntouched(p) == \A j \in (p + 1)..Len(mx_hosts) : ~Contacted(mx_hosts[j][2])
\* the k-th operation is a command op that the server replied to
Replied(k, op) == log[k].op = op /\ log[k].exc = "none"
\* the k-th operation is a HELO, MAIL FROM or RCPT TO during which the
\* connection was lost
Disconnected(k) ==
    /\ log[k].op \in {"helo", "mail", "rcpt"}
    /\ log[k].exc = "SMTPServerDisconnected"
\* the k-th operation is a connection attempt that failed at the network level
\* (refused, timed out) or with the class the source's handler names
ConnectFailures == {"OSError", "SMTPConnectError"}
ConnectFailed(k) == log[k].op = "connect" /\ log[k].exc \in ConnectFailures
\* the call ended by returning a boolean
ReturnedBool == Done /\ raised = "none" /\ result \in {"True", "False"}

(***************************************************************************)
(* C1. Negative short-circuit: when a host answers RCPT TO with a code     *)
(* other than the accepted one, the call ends at once, returns False, and  *)
(* no host listed after that host has been contacted.                      *)
(***************************************************************************)
C1_NegativeShortCircuit ==
    \A k \in 1..Len(log) :
        (Replied(k, "rcpt") /\ log[k].code # OK250) =>
            /\ k = Len(log)
            /\ Done /\ raised = "none" /\ result = "False"
            /\ LaterUntouched(Pos(log[k].to))

\* the priority-10 host rejects the recipient while a priority-20 host is listed
C1_Witness ==
    /\ Done /\ verify /\ result = "False"
    /\ Len(mx_hosts) = 2 /\ mx_hosts[1][1] = 10 /\ mx_hosts[2][1] = 20
    /\ Replied(Len(log), "rcpt") /\ log[Len(log)].code = 550
    /\ log[Len(log)].to = mx_hosts[1][2]

(***************************************************************************)
(* C2. Fallback: a finished call with verify set whose log agrees with     *)
(* "every host before position k could not be connected to and host k      *)
(* accepts the recipient" has returned True.                               *)
(***************************************************************************)
\* everything host h was seen to do fits the scenario of C2 for position k
FitsFallback(k) ==
    \A n \in 1..Len(log) :
        /\ log[n].to # 0 => Pos(log[n].to) <= k
        /\ (log[n].to # 0 /\ Pos(log[n].to) < k) => ConnectFailed(n)
        /\ (log[n].to # 0 /\ Pos(log[n].to) = k) =>
              /\ log[n].exc = "none"
              /\ log[n].op \in {"helo", "rcpt"} => log[n].code = OK250

C2_Fallback ==
    (/\ Done /\ verify /\ Matches
     /\ \E k \in 2..Len(mx_hosts) :
           /\ FitsFallback(k)
           /\ \A j \in 1..(k - 1) : Contacted(mx_hosts[j][2]))
        => (raised = "none" /\ result = "True")

C4_InvalidNoNetwork ==
    ~Matches =>
        /\ log = <<>> /\ open = {}
        /\ pc \in {"start", "done"}
        /\ Done => (raised = "none" /\ result = "False")

\* ... also with verification requested and DNS installed
C4_Witness == Done /\ ~Matches /\ verify /\ DNS /\ result = "False" /\ email # <<>>

C6_ConnectFailureAbsorbed ==
    \A k \in 1..Len(log) :
        ConnectFailed(k) =>
            /\ raised = "none"
            /\ \/ k < Len(log)
               \/ pc = "connect" /\ i = Pos(log[k].to) + 1
               \/ Pos(log[k].to) = Len(mx_hosts) /\ ReturnedBool

(***************************************************************************)
(* C7. With MX checking requested for a matching address and no DNS module *)
(* installed, the call ends with an exception, returns neither True nor    *)
(* False, and performs no DNS or SMTP operation.                           *)
(***************************************************************************)
C7_NoDnsCapability ==
    (Matches /\ (check_mx \/ verify) /\ ~DNS /\ pc # "start") =>
        /\ Done /\ raised = "Exception" /\ result = "none"
        /\ log = <<>>

C7_Witness == Done /\ Matches /\ check_mx /\ ~verify /\ ~DNS /\ raised = "Exception"

(***************************************************************************)
(* C8. When the call has ended, by a return or by an exception, no         *)
(* connection it opened is still open.                                     *)
(***************************************************************************)
C8_AllReleased == Done => open = {}

(***************************************************************************)
(* C9. With check_mx and verify both false, a matching address makes the   *)
(* call return True without any DNS or SMTP operation.                     *)
(***************************************************************************)
C9_SyntaxOnly ==
    (Matches /\ ~check_mx /\ ~verify /\ pc # "start") =>
        /\ Done /\ raised = "none" /\ result = "True"
        /\ log = <<>> /\ open = {}

C9_Witness == Done /\ Matches /\ ~check_mx /\ ~verify /\ DNS /\ result = "True"

(***************************************************************************)
(* C10. With verify set, the call and the call with the opposite check_mx  *)
(* argument, run against the same DNS and SMTP behaviour, are at the same  *)
(* place, have issued the same operations and have the same outcome.       *)
(***************************************************************************)
C10_VerifyImpliesCheckMx ==
    verify =>
        /\ twin.pc = pc
        /\ twin.log = log
        /\ twin.result = result
        /\ twin.raised = raised
        /\ twin.open = open

\* both calls went through the whole handshake and returned False
C10_Witness ==
    /\ verify /\ Done /\ result = "False" /\ twin.result = "False"
    /\ log # <<>> /\ Replied(Len(log), "rcpt") /\ twin.log = log

(***************************************************************************)
(* C11. Hosts are probed one after the other in ascending order of         *)
(* preference: when an operation is issued to a host, every host with a    *)
(* smaller preference value has been attempted before and has ended in a   *)
(* continuable outcome, and no operation goes back to a host listed        *)
(* earlier.                                                                *)
(***************************************************************************)
\* the j-th operation is an outcome after which the loop continues: a
\* connection failure the handler of line 126 catches, or a refused HELO
Continuable(j) ==
    \/ log[j].op = "connect" /\ log[j].exc = "SMTPConnectError"
    \/ Replied(j, "helo") /\ log[j].code # OK250
\* the last operation issued to host h is the j-th, and it is continuable
EndedContinuable(h, j) ==
    /\ log[j].to = h /\ Continuable(j)
    /\ \A n \in (j + 1)..Len(log) : log[n].to # h

C11_PriorityOrder ==
    \A k \in 1..Len(log) :
        log[k].to # 0 =>
            LET p == Pos(log[k].to)
            IN  /\ \A q \in 1..Len(mx_hosts) :
                      mx_hosts[q][1] < mx_hosts[p][1] =>
                          \E j \in 1..(k - 1) : EndedContinuable(mx_hosts[q][2], j)
                /\ \A n \in k..Len(log) : Pos(log[n].to) >= p

\* the priority-20 host is contacted after the priority-10 host refused HELO
C11_Witness ==
    /\ Len(mx_hosts) = 2 /\ mx_hosts[1][1] = 10 /\ mx_hosts[2][1] = 20
    /\ Contacted(mx_hosts[2][2])
    /\ \E j \in 1..Len(log) : Replied(j, "helo") /\ EndedContinuable(mx_hosts[1][2], j)

(***************************************************************************)
(* C12. Without verify, the first host whose connection succeeds ends the  *)
(* call with True: no HELO, MAIL FROM or RCPT TO is ever sent and no host  *)
(* listed after it is contacted.                                           *)
(***************************************************************************)
C12_BareConnection ==
    ~verify =>
        /\ \A k \in 1..Len(log) : log[k].op \notin {"helo", "mail", "rcpt"}
        /\ \A k \in 1..Len(log) :
              Replied(k, "connect") =>
                  /\ k = Len(log)
                  /\ Done /\ raised = "none" /\ result = "True"
                  /\ LaterUntouched(Pos(log[k].to))

\* the second host is the first one that can be connected to
C12_Witness ==
    /\ ~verify /\ Done /\ result = "True" /\ Len(mx_hosts) = 2
    /\ Len(log) = 4
    /\ log[3].to = mx_hosts[1][2] /\ ConnectFailed(3)
    /\ log[4].to = mx_hosts[2][2] /\ Replied(4, "connect")

(***************************************************************************)
(* C17. A host that answers HELO with a code other than the accepted one   *)
(* is abandoned: no MAIL FROM or RCPT TO is sent to it, the next operation *)
(* is the connection attempt to the next host, and after the last host the *)
(* call returns True.                                                      *)
(***************************************************************************)
C17_HeloRefused ==
    \A k \in 1..Len(log) :
        (Replied(k, "helo") /\ log[k].code # OK250) =>
            LET p == Pos(log[k].to)
            IN  /\ \A n \in 1..Len(log) :
                      log[n].to = log[k].to => log[n].op \notin {"mail", "rcpt"}
                /\ p < Len(mx_hosts) =>
                      IF k = Len(log)
                      THEN pc = "connect" /\ i = p + 1
                      ELSE log[k + 1].op = "connect" /\ log[k + 1].to = mx_hosts[p + 1][2]
                /\ p = Len(mx_hosts) =>
                      k = Len(log) /\ Done /\ raised = "none" /\ result = "True"

\* the first host refuses HELO and the second one is asked for the recipient
C17_Witness ==
    /\ Len(mx_hosts) = 2 /\ Len(log) >= 4
    /\ Replied(4, "helo") /\ log[4].code = 550 /\ log[4].to = mx_hosts[1][2]
    /\ Replied(Len(log), "rcpt") /\ log[Len(log)].to = mx_hosts[2][2]

(***************************************************************************)
(* C13. A domain without MX records gives a negative result: whether the   *)
(* lookup raises ServerError or answers with an empty list, the call       *)
(* returns False and no SMTP connection is attempted.                      *)
(***************************************************************************)
\* the k-th operation is an MX lookup that found no record
NoMxRecords(k) ==
    /\ log[k].op = "mxlookup"
    /\ \/ log[k].exc = "ServerError"
       \/ log[k].exc = "none" /\ mx_hosts = <<>>

C13_NoMxNegative ==
    (Done /\ \E k \in 1..Len(log) : NoMxRecords(k)) =>
        /\ raised = "none" /\ result = "False"
        /\ \A n \in 1..Len(log) : log[n].op # "connect"

(***************************************************************************)
(* C16. When every host that is tried ends in a continuable outcome (its   *)
(* connection fails or it refuses HELO), so that no host gives a           *)
(* definitive result, the call returns True, with and without verify.      *)
(***************************************************************************)
\* the last operation issued to host h is a failed connection or a refused HELO
EndedWithoutResult(h) ==
    \E j \in 1..Len(log) :
        /\ log[j].to = h
        /\ \A n \in (j + 1)..Len(log) : log[n].to # h
        /\ \/ ConnectFailed(j)
           \/ Replied(j, "helo") /\ log[j].code # OK250

C16_NoDefinitiveResult ==
    (/\ Done /\ mx_hosts # <<>>
     /\ \A p \in 1..Len(mx_hosts) :
           \/ EndedWithoutResult(mx_hosts[p][2])
           \/ p > 1 /\ ~Contacted(mx_hosts[p][2]))
        => (raised = "none" /\ result = "True")

(***************************************************************************)
(* C18. A host that refuses MAIL FROM:<> is treated like one that refuses  *)
(* HELO: no RCPT TO is sent to it and the next host is probed.             *)
(***************************************************************************)
C18_MailRefused ==
    \A k \in 1..Len(log) :
        (Replied(k, "mail") /\ log[k].code # OK250) =>
            LET p == Pos(log[k].to)
            IN  /\ pc # "rcpt"
                /\ \A n \in 1..Len(log) :
                      log[n].to = log[k].to => log[n].op # "rcpt"
                /\ p < Len(mx_hosts) =>
                      IF k = Len(log)
                      THEN pc = "connect" /\ i = p + 1
                      ELSE log[k + 1].op = "connect" /\ log[k + 1].to = mx_hosts[p + 1][2]

(***************************************************************************)
(* C19. Reply codes count by class: every 2xx reply to HELO lets the       *)
(* dialogue with that host go on, every 2xx reply to RCPT TO makes the     *)
(* call return True, and only a reply outside the class makes it return    *)
(* False.                                                                  *)
(***************************************************************************)
SuccessClass == {c \in ReplyCodes : c \div 100 = 2}

C19_SuccessClass ==
    \A k \in 1..Len(log) :
        /\ (Replied(k, "helo") /\ log[k].code \in SuccessClass) =>
              IF k = Len(log)
              THEN pc = "mail"
              ELSE log[k + 1].op = "mail" /\ log[k + 1].to = log[k].to
        /\ Replied(k, "rcpt") =>
              /\ Done /\ raised = "none"
              /\ result = "True" <=> log[k].code \in SuccessClass

(***************************************************************************)
(* C14. Anchoring: the match covers the whole string.  The call accepts    *)
(* an address only when the string from its first to its last character    *)
(* is an addr-spec.                                                        *)
(***************************************************************************)
\* the whole of s, from its first to its last character, is an addr-spec
WholeAddrSpec(s) == Len(s) \in ADDR_SPEC(s, {0})
\* the call was a purely syntactic check (check_mx and verify both false)
SyntacticCheck == Done /\ ~verify /\ ~check_mx

C14_Anchored ==
    (SyntacticCheck /\ raised = "none" /\ result = "True") => WholeAddrSpec(email)

(***************************************************************************)
(* C15. The syntactic check returns True exactly for the strings of the    *)
(* form local-part "@" domain and returns False, without raising, for      *)
(* every other string.                                                     *)
(***************************************************************************)
C15_ExactlyAddrSpec ==
    SyntacticCheck =>
        /\ raised = "none"
        /\ result = IF WholeAddrSpec(email) THEN "True" ELSE "False"

(***************************************************************************)
(* C20. The name handed to the MX lookup is the domain the grammar         *)
(* matched: the part of the address that follows the "@" between the       *)
(* local part and the domain, also when the local part is a quoted string  *)
(* that contains "@".                                                      *)
(***************************************************************************)
\* the positions right after an "@" that separates a local part from a
\* domain reaching the end of s
DomainStarts(s) ==
    {q \in Lit(s, LOCAL_PART(s, {0}), "@") :
        \E e \in DOMAIN_RE(s, {q}) : AtEnd(s, e)}

C20_LookupDomain ==
    (log # <<>> /\ log[Len(log)].op = "mxlookup") =>
        \E q \in DomainStarts(email) : hostname = SliceFrom(email, q)

=============================================================================
